---- MODULE Spec2Model ----
(***************************************************************************)
(* Model of the traffic-stealing engine of the mirrord agent:              *)
(*   - the stealer worker  (agent/src/steal/connection.rs)                 *)
(*   - the client-fanout API handle (agent/src/tcp_api.rs, steal/api.rs)   *)
(*   - the per-connection HTTP handler (steal/http_traffic/hyper_handler)  *)
(* Subscriptions (crate::util), SafeIpTables (steal/ip_tables.rs) and     *)
(* IndexAllocator are modelled from their documented contract.             *)
(***************************************************************************)
EXTENDS Integers, Sequences, FiniteSets, TLC

(***************************************************************************)
(* Bounds of the model.                                                    *)
(***************************************************************************)
NumClients == 2
NumPorts == 2
QueueCap == 2
MaxOps == 5
MaxRequests == 3
NumHeaders == 2
MaxBytes == 2
MaxConns == 2
MaxExtra == 2
MaxFilterOps == 2
MaxLayerOps == 5

Clients == 1..NumClients
Ports == 1..NumPorts
ConnIds == 0..(MaxOps - 1)
NoClient == 0
Headers == 1..NumHeaders
LayerConns == 0..(MaxConns - 1)

VARIABLES
    debug_assertions,   \* is this a build with debug assertions enabled
    handle,             \* per client: state of its AgentTcpWorkerApi handle
    try_send_result,    \* per client: outcome of the try_send done by Drop
    api_panicked,       \* per client: did dropping the handle panic
    queue,              \* the shared command channel (command_tx/command_rx)
    issued,             \* number of events the environment has produced
    worker,             \* "running" | "stopped": TcpConnectionStealer::start
    port_subscriptions, \* Subscriptions<Port, ClientId>: port -> subscribers
    clients,            \* keys of TcpConnectionStealer::clients
    iptables,           \* "None" | "Some": TcpConnectionStealer::iptables
    rules,              \* ports with a REDIRECT rule in the chain
    write_streams,      \* keys of write_streams
    read_streams,       \* keys of read_streams
    errored,            \* read streams that yielded an error (next: end)
    client_connections, \* connection id -> client id (NoClient: no entry)
    index_allocator,    \* next ConnectionId handed out
    reads,              \* per connection: chunks read from the peer so far
    peer_got,           \* per connection: chunks written back to the peer
    sink,               \* per client: messages put on its daemon_tx
    last,               \* the event the worker handled last
    full_ports,         \* ports held by a PortSteal::Steal subscription
    \* one HTTP-filtered connection
    client_filters,     \* HyperHandler::filters: client -> its regex
    request_id,         \* HyperHandler::request_id
    hyper_task,         \* "serving" | "panicked" | "ended"
    in_flight,          \* request ids whose handler future is pending
    matched_tx,         \* the matched channel: requests for the layer
    unmatched_tx,       \* the unmatched channel: responses (or errors)
    arrived,            \* request ids of the responses, in arrival order
    held,               \* responses that wait for their turn
    written,            \* request ids of the responses the peer received
    calls,              \* per request, in order: the client it matched
    last_headers,       \* the headers of the request call saw last
    proxied,            \* request ids sent on to the original destination
    \* one connection of a filtered port, from the probe on
    http_version,       \* "None" | "V1" | "V2" | "NotHttp" | "Empty"
    filter_task,        \* what HttpFilterBuilder::start has spawned
    peer_sent,          \* number of bytes the peer has sent: 1, 2, ..
    tcp_in,             \* bytes of the peer that wait in the stolen stream
    dest_got,           \* bytes the original destination has received
    dest_sent,          \* number of bytes the destination has sent
    dest_in,            \* bytes of the destination that wait to be copied
    peer_back,          \* bytes the peer has received from the destination
    \* the layer's steal handler (layer/src/tcp_steal.rs)
    layer,              \* "running" | "failed" | "panicked"
    layer_issued,       \* number of events the layer's environment produced
    announced,          \* number of NewConnection messages the agent sent
    layer_write_streams,\* keys of TcpStealHandler::write_streams
    layer_read_streams, \* keys of TcpStealHandler::read_streams
    layer_errored,      \* read streams that yielded an error (next: end)
    request_senders,    \* keys of TcpStealHandler::request_senders
    http_tasks,         \* requests whose spawned send_request is pending
    requests,           \* the HttpRequest messages the layer received
    agent_sent,         \* per connection: payloads of the Data received
    app_got,            \* per connection: chunks written to the local app
    app_reads,          \* per connection: chunks read from the local app
    wire,               \* the ClientMessages the layer emitted, in order
    layer_last          \* the event the layer handled last

workerVars == <<debug_assertions, handle, try_send_result, api_panicked, queue,
                issued, worker, port_subscriptions, clients, iptables, rules,
                write_streams, read_streams, errored, client_connections,
                index_allocator, reads, peer_got, sink, last, full_ports>>

httpVars == <<client_filters, request_id, hyper_task, in_flight, matched_tx,
              unmatched_tx, arrived, held, written, calls, last_headers,
              proxied>>

passVars == <<http_version, filter_task, peer_sent, tcp_in, dest_got,
              dest_sent, dest_in, peer_back>>

layerVars == <<layer, layer_issued, announced, layer_write_streams,
               layer_read_streams, layer_errored, request_senders, http_tasks,
               requests, agent_sent, app_got, app_reads, wire, layer_last>>

vars == <<workerVars, httpVars, passVars, layerVars>>

apiVars == <<handle, try_send_result, api_panicked>>
stealerVars == <<port_subscriptions, clients, iptables, rules>>
connVars == <<write_streams, read_streams, errored, client_connections,
              index_allocator, reads, peer_got>>

(***************************************************************************)
(* Messages and commands.                                                  *)
(***************************************************************************)
Command(c, k, a, b) == [client |-> c, kind |-> k, arg |-> a, data |-> b]

SubscribeResultOk(p) == [type |-> "SubscribeResult", a |-> p, b |-> 1]
SubscribeResultErr(p) == [type |-> "SubscribeResult", a |-> p, b |-> 0]
NewConnection(id, p) == [type |-> "NewConnection", a |-> id, b |-> p]
Data(id, k) == [type |-> "Data", a |-> id, b |-> k]
Close(id) == [type |-> "Close", a |-> id, b |-> 0]

\* The event handled last: its kind and arguments and how it ended ("ok",
\* "failed": the handler returned an error, "panicked").
Event(k, c, p, id, res) ==
    [kind |-> k, client |-> c, port |-> p, conn |-> id, result |-> res]

Range(s) == {s[i] : i \in 1..Len(s)}

(***************************************************************************)
(* Subscriptions<Port, ClientId>: per port the subscribers in insertion    *)
(* order.                                                                  *)
(***************************************************************************)
get_topic_subscribers(subs, p) == subs[p]

get_client_topics(subs, c) == {p \in Ports : c \in Range(subs[p])}

subscribe(subs, c, p) ==
    IF c \in Range(subs[p]) THEN subs
    ELSE [subs EXCEPT ![p] = Append(@, c)]

unsubscribe(subs, c, p) ==
    [subs EXCEPT ![p] = SelectSeq(@, LAMBDA x : x # c)]

remove_client(subs, c) ==
    [p \in Ports |-> SelectSeq(subs[p], LAMBDA x : x # c)]

is_empty(subs) == \A p \in Ports : subs[p] = <<>>

(***************************************************************************)
(* SafeIpTables: the chain of REDIRECT rules.  Installing and removing a   *)
(* rule is idempotent; dropping the guard flushes the chain.               *)
(***************************************************************************)
add_redirect(rs, p) == rs \cup {p}

remove_redirect(rs, p) == rs \ {p}

DropGuard(guard, rs) == IF guard = "Some" THEN {} ELSE rs

(***************************************************************************)
(* A send on a client's daemon_tx succeeds while the receiver, a field of  *)
(* the client's handle, is alive.                                          *)
(***************************************************************************)
ReceiverAlive(c) == handle[c] = "live"

InitWorker ==
    /\ debug_assertions \in BOOLEAN
    /\ handle = [c \in Clients |-> "none"]
    /\ try_send_result = [c \in Clients |-> "none"]
    /\ api_panicked = [c \in Clients |-> FALSE]
    /\ queue = <<>>
    /\ issued = 0
    /\ worker = "running"
    /\ port_subscriptions = [p \in Ports |-> <<>>]
    /\ clients = {}
    /\ iptables = "None"
    /\ rules = {}
    /\ write_streams = {}
    /\ read_streams = {}
    /\ errored = {}
    /\ client_connections = [id \in ConnIds |-> NoClient]
    /\ index_allocator = 0
    /\ reads = [id \in ConnIds |-> 0]
    /\ peer_got = [id \in ConnIds |-> <<>>]
    /\ sink = [c \in Clients |-> <<>>]
    /\ last = Event("None", NoClient, 0, -1, "ok")
    /\ full_ports = {}

(***************************************************************************)
(* The client-fanout API handle.                                           *)
(***************************************************************************)
\* Mutant of send_command: the command overtakes the queued ones.
send_command_first(cmd) ==
    /\ worker = "running"
    /\ Len(queue) < QueueCap
    /\ queue' = <<cmd>> \o queue

\* send_command: an awaited send; it waits for room in the channel.
send_command(cmd) ==
    /\ worker = "running"
    /\ Len(queue) < QueueCap
    /\ queue' = Append(queue, cmd)

\* try_send_command: "sent", or the error of a full or closed channel.
try_send_command(c) ==
    IF worker # "running" THEN "closed"
    ELSE IF Len(queue) >= QueueCap THEN "full"
    ELSE "sent"

\* Drop: close_client().expect(..) panics on every error of try_send.
DropPanics(result) == result # "sent"

ApiDrop(c) ==
    /\ handle[c] = "live"
    /\ LET result == try_send_command(c) IN
        /\ try_send_result' = [try_send_result EXCEPT ![c] = result]
        /\ api_panicked' = [api_panicked EXCEPT ![c] = DropPanics(result)]
        /\ queue' = IF result = "sent"
                    THEN Append(queue, Command(c, "ClientClose", 0, 0))
                    ELSE queue
    /\ handle' = [handle EXCEPT ![c] = "dropped"]
    /\ issued < MaxOps /\ issued' = issued + 1
    /\ UNCHANGED <<debug_assertions, worker, stealerVars, connVars,
                   sink, last>>

\* AgentTcpWorkerApi::new: NewClient is the first command of a handle.  When
\* the send fails the half-built handle is dropped, which runs Drop.
ApiNew(c) ==
    /\ handle[c] = "none"
    /\ \A d \in Clients : d < c => handle[d] # "none"
    /\ \/ /\ send_command(Command(c, "NewClient", 0, 0))
          /\ handle' = [handle EXCEPT ![c] = "live"]
          /\ UNCHANGED <<try_send_result, api_panicked>>
       \/ /\ worker # "running"
          /\ handle' = [handle EXCEPT ![c] = "dropped"]
          /\ try_send_result' = [try_send_result EXCEPT ![c] = "closed"]
          /\ api_panicked' = [api_panicked EXCEPT ![c] = DropPanics("closed")]
          /\ UNCHANGED queue
    /\ issued < MaxOps /\ issued' = issued + 1
    /\ UNCHANGED <<debug_assertions, worker, stealerVars, connVars,
                   sink, last>>

ApiSend(c, k, a, b) ==
    /\ handle[c] = "live"
    /\ issued < MaxOps
    /\ send_command(Command(c, k, a, b))
    /\ issued' = issued + 1
    /\ UNCHANGED <<debug_assertions, apiVars, worker, stealerVars, connVars,
                   sink, last>>

\* The connection ids a layer may name: those handed out so far, and the
\* next one as the representative of the ids the worker does not know.
KnownIds == {id \in ConnIds : id <= index_allocator}

ApiPortSubscribe(c, p) == ApiSend(c, "PortSubscribe", p, 0)

ApiPortUnsubscribe(c, p) == ApiSend(c, "PortUnsubscribe", p, 0)

ApiConnectionUnsubscribe(c, id) == ApiSend(c, "ConnectionUnsubscribe", id, 0)

ApiClientData(c, id) == ApiSend(c, "ResponseData", id, issued + 1)

(***************************************************************************)
(* The stealer worker.                                                     *)
(***************************************************************************)
\* start returns (an error propagated by `?`, a break) or unwinds from a
\* panic: the worker value is dropped with everything it owns; dropping the
\* guard flushes the chain, dropping command_rx closes the command channel.
Terminate(ev) ==
    /\ worker' = "stopped"
    /\ queue' = <<>>
    /\ port_subscriptions' = [p \in Ports |-> <<>>]
    /\ clients' = {}
    /\ iptables' = "None"
    /\ rules' = DropGuard(iptables, rules)
    /\ write_streams' = {}
    /\ read_streams' = {}
    /\ errored' = {}
    /\ client_connections' = [id \in ConnIds |-> NoClient]
    /\ UNCHANGED <<index_allocator, reads, peer_got, sink>>
    /\ last' = ev

\* Mutant of SendOutcome: the message is never put on the client's sink.
SendSkipped(c) == "skipped"

\* send_message_to_single_client / daemon_tx.send: "skipped" when the client
\* has no sender, "sent", or "failed" when its receiver is gone.
SendOutcome(c) ==
    IF c \notin clients THEN "skipped"
    ELSE IF ReceiverAlive(c) THEN "sent"
    ELSE "failed"

Deliver(c, msg) == sink' = [sink EXCEPT ![c] = Append(@, msg)]

\* new_client
new_client(c) ==
    /\ clients' = clients \cup {c}
    /\ queue' = Tail(queue)
    /\ last' = Event("NewClient", c, 0, -1, "ok")
    /\ UNCHANGED <<port_subscriptions, iptables, rules, connVars, sink, worker>>

\* Mutant of PortAlreadyStolen: the check for a first subscriber is missing.
PortNeverStolen(c, p) == FALSE

\* port_subscribe: the port is refused when it has a first subscriber.
PortAlreadyStolen(c, p) ==
    get_topic_subscribers(port_subscriptions, p) # <<>>

port_subscribe(c, p) ==
    IF PortAlreadyStolen(c, p)
    THEN \* res = Err(PortAlreadyStolen(port))
        CASE SendOutcome(c) = "sent" ->
                /\ Deliver(c, SubscribeResultErr(p))
                /\ queue' = Tail(queue)
                /\ last' = Event("PortSubscribe", c, p, -1, "ok")
                /\ UNCHANGED <<stealerVars, connVars, worker>>
          [] SendOutcome(c) = "skipped" ->
                /\ queue' = Tail(queue)
                /\ last' = Event("PortSubscribe", c, p, -1, "ok")
                /\ UNCHANGED <<stealerVars, connVars, worker, sink>>
          [] OTHER -> Terminate(Event("PortSubscribe", c, p, -1, "failed"))
    ELSE \E new_ok, add_ok \in BOOLEAN :
        LET first == is_empty(port_subscriptions) IN
        IF (first /\ ~new_ok) \/ ~add_ok \/ SendOutcome(c) = "failed"
        THEN \* SafeIpTables::new(..)?, add_redirect(..)? or the send fails
            /\ Terminate(Event("PortSubscribe", c, p, -1, "failed"))
        ELSE
            /\ new_ok
            /\ iptables' = "Some"
            /\ port_subscriptions' = subscribe(port_subscriptions, c, p)
            /\ rules' = add_redirect(
                    IF first THEN DropGuard(iptables, rules) ELSE rules, p)
            /\ IF SendOutcome(c) = "sent"
               THEN Deliver(c, SubscribeResultOk(p))
               ELSE UNCHANGED sink
            /\ queue' = Tail(queue)
            /\ last' = Event("PortSubscribe", c, p, -1, "ok")
            /\ UNCHANGED <<clients, connVars, worker>>

\* port_unsubscribe
port_unsubscribe(c, p) ==
    LET subscribed == p \in get_client_topics(port_subscriptions, c)
        subs == unsubscribe(port_subscriptions, c, p)
    IN \E remove_ok \in BOOLEAN :
        IF subscribed /\ ~remove_ok
        THEN Terminate(Event("PortUnsubscribe", c, p, -1, "failed"))
        ELSE
            /\ remove_ok
            /\ port_subscriptions' = subs
            /\ iptables' = IF is_empty(subs) THEN "None" ELSE iptables
            /\ rules' = LET rs == IF subscribed THEN remove_redirect(rules, p)
                                  ELSE rules
                        IN IF is_empty(subs) THEN DropGuard(iptables, rs) ELSE rs
            /\ queue' = Tail(queue)
            /\ last' = Event("PortUnsubscribe", c, p, -1, "ok")
            /\ UNCHANGED <<clients, connVars, sink, worker>>

\* Mutant of RulesAfterClose: close_client leaves the rules in the chain.
RulesKeptAfterClose(c) == rules

\* Mutant of ClientsAfterClose: close_client keeps the client's sender.
ClientsKeptAfterClose(c) == clients

\* close_client: the rules of the client's ports are removed one by one.
RulesAfterClose(c) ==
    rules \ get_client_topics(port_subscriptions, c)

\* Mutant of SubscriptionsAfterClose: the client's subscriptions stay.
SubscriptionsKeptAfterClose(c) == port_subscriptions

\* close_client: self.port_subscriptions.remove_client(client_id)
SubscriptionsAfterClose(c) == remove_client(port_subscriptions, c)

ClientsAfterClose(c) == clients \ {c}

\* debug_assert!(self.iptables.is_some()) in close_client
CloseClientAssertFails(c) == debug_assertions /\ iptables = "None"

close_client(c) ==
    /\ port_subscriptions' = SubscriptionsAfterClose(c)
    /\ rules' = RulesAfterClose(c)
    /\ clients' = ClientsAfterClose(c)
    /\ UNCHANGED iptables

client_close(c) ==
    IF CloseClientAssertFails(c)
    THEN Terminate(Event("ClientClose", c, 0, -1, "panicked"))
    ELSE \E remove_ok \in BOOLEAN :
        IF get_client_topics(port_subscriptions, c) # {} /\ ~remove_ok
        THEN Terminate(Event("ClientClose", c, 0, -1, "failed"))
        ELSE
            /\ remove_ok
            /\ close_client(c)
            /\ queue' = Tail(queue)
            /\ last' = Event("ClientClose", c, 0, -1, "ok")
            /\ UNCHANGED <<connVars, sink, worker>>

\* Mutant of ReadStreamsAfterUnsubscribe: the read stream stays in the map.
ReadStreamsKeptAfterUnsubscribe(id) == read_streams

\* connection_unsubscribe: self.read_streams.remove(&connection_id)
ReadStreamsAfterUnsubscribe(id) == read_streams \ {id}

\* connection_unsubscribe
connection_unsubscribe(c, id) ==
    /\ write_streams' = write_streams \ {id}
    /\ read_streams' = ReadStreamsAfterUnsubscribe(id)
    /\ errored' = errored \ {id}
    /\ queue' = Tail(queue)
    /\ last' = Event("ConnectionUnsubscribe", c, 0, id, "ok")
    /\ UNCHANGED <<stealerVars, client_connections, index_allocator, reads,
                   peer_got, sink, worker>>

\* Mutant of WrittenToPeer: the new bytes come out ahead of the earlier ones.
WrittenInFront(got, bytes) == <<bytes>> \o got

\* stream.write_all(&tcp_data.bytes[..]): all the bytes, after those
\* written before.
WrittenToPeer(got, bytes) == Append(got, bytes)

\* forward_data: write_all on the write half, if there is one.
forward_data(c, id, bytes) ==
    IF id \in write_streams
    THEN \E write_ok \in BOOLEAN :
        IF write_ok
        THEN /\ peer_got' = [peer_got EXCEPT ![id] = WrittenToPeer(@, bytes)]
             /\ queue' = Tail(queue)
             /\ last' = Event("ResponseData", c, 0, id, "ok")
             /\ UNCHANGED <<stealerVars, write_streams, read_streams, errored,
                            client_connections, index_allocator, reads, sink,
                            worker>>
        ELSE Terminate(Event("ResponseData", c, 0, id, "failed"))
    ELSE /\ queue' = Tail(queue)
         /\ last' = Event("ResponseData", c, 0, id, "ok")
         /\ UNCHANGED <<stealerVars, connVars, sink, worker>>

\* handle_command, one action per command kind.
Receiving(kind) ==
    /\ worker = "running"
    /\ queue # <<>>
    /\ Head(queue).kind = kind

HandleNewClient ==
    /\ Receiving("NewClient")
    /\ new_client(Head(queue).client)
    /\ UNCHANGED <<debug_assertions, apiVars, issued>>

HandlePortSubscribe ==
    /\ Receiving("PortSubscribe")
    /\ port_subscribe(Head(queue).client, Head(queue).arg)
    /\ UNCHANGED <<debug_assertions, apiVars, issued>>

HandlePortUnsubscribe ==
    /\ Receiving("PortUnsubscribe")
    /\ port_unsubscribe(Head(queue).client, Head(queue).arg)
    /\ UNCHANGED <<debug_assertions, apiVars, issued>>

HandleClientClose ==
    /\ Receiving("ClientClose")
    /\ client_close(Head(queue).client)
    /\ UNCHANGED <<debug_assertions, apiVars, issued>>

HandleConnectionUnsubscribe ==
    /\ Receiving("ConnectionUnsubscribe")
    /\ connection_unsubscribe(Head(queue).client, Head(queue).arg)
    /\ UNCHANGED <<debug_assertions, apiVars, issued>>

HandleResponseData ==
    /\ Receiving("ResponseData")
    /\ forward_data(Head(queue).client, Head(queue).arg, Head(queue).data)
    /\ UNCHANGED <<debug_assertions, apiVars, issued>>

\* Mutant of UnexpectedConnection: the check for a subscriber is missing.
ConnectionAlwaysExpected(p) == FALSE

\* incoming_connection: no first subscriber of the original destination
\* port, Err(AgentError::UnexpectedConnection(port)).
UnexpectedConnection(p) ==
    get_topic_subscribers(port_subscriptions, p) = <<>>

\* incoming_connection: a connection accepted on the stealer listener whose
\* original destination port is p.
incoming_connection(p) ==
    \E orig_dst_ok \in BOOLEAN :
    LET subscribers == get_topic_subscribers(port_subscriptions, p)
        client_id == IF subscribers = <<>> THEN NoClient ELSE Head(subscribers)
        connection_id == index_allocator
        ev(res) == Event("Accept", client_id, p, connection_id, res)
        Stored ==
            /\ index_allocator' = index_allocator + 1
            /\ write_streams' = write_streams \cup {connection_id}
            /\ read_streams' = read_streams \cup {connection_id}
            /\ client_connections' =
                   [client_connections EXCEPT ![connection_id] = client_id]
            /\ UNCHANGED <<errored, reads, peer_got, queue, worker>>
    IN  IF ~orig_dst_ok
        THEN \* orig_dst_addr(&stream)? fails: the port is not known
            Terminate(Event("Accept", NoClient, 0, -1, "failed"))
        ELSE IF UnexpectedConnection(p)
        THEN \* Err(AgentError::UnexpectedConnection(port))
            Terminate(Event("Accept", NoClient, p, -1, "failed"))
        ELSE IF SendOutcome(client_id) = "sent"
        THEN /\ Stored
             /\ Deliver(client_id, NewConnection(connection_id, p))
             /\ last' = ev("ok")
             /\ UNCHANGED stealerVars
        ELSE IF SendOutcome(client_id) = "failed"
        THEN Terminate(ev("failed"))
        ELSE IF debug_assertions
        THEN \* debug_assert!(self.clients.get(&client_id).is_some())
            Terminate(ev("panicked"))
        ELSE \E remove_ok \in BOOLEAN :
            IF remove_ok
            THEN /\ Stored
                 /\ close_client(client_id)
                 /\ last' = ev("ok")
                 /\ UNCHANGED sink
            ELSE Terminate(ev("failed"))

Accept(p) ==
    /\ worker = "running"
    /\ issued < MaxOps
    /\ issued' = issued + 1
    /\ incoming_connection(p)
    /\ UNCHANGED <<debug_assertions, apiVars>>

\* forward_incoming_tcp_data for a Data or Close message: it goes to the
\* client of the connection; an error of the send is only logged by start.
forward_incoming_tcp_data(id, msg, kind) ==
    LET c == client_connections[id]
        found == c # NoClient /\ c \in clients
    IN  IF found
        THEN /\ IF ReceiverAlive(c) THEN Deliver(c, msg) ELSE UNCHANGED sink
             /\ last' = Event(kind, c, 0, id,
                               IF ReceiverAlive(c) THEN "ok" ELSE "failed")
             /\ UNCHANGED <<stealerVars, write_streams, client_connections,
                            index_allocator, peer_got, queue, worker>>
        ELSE IF debug_assertions
        THEN \* debug_assert!(false)
            /\ Terminate(Event(kind, c, 0, id, "panicked"))
        ELSE /\ last' = Event(kind, c, 0, id, "ok")
             /\ UNCHANGED <<stealerVars, write_streams, client_connections,
                            index_allocator, peer_got, queue, worker, sink>>

\* read_streams.next() yields bytes read from the peer of connection id.
ReadData(id) ==
    /\ worker = "running"
    /\ id \in read_streams \ errored
    /\ issued < MaxOps
    /\ issued' = issued + 1
    /\ forward_incoming_tcp_data(id, Data(id, reads[id] + 1), "Data")
    /\ IF worker' = "running"
       THEN /\ reads' = [reads EXCEPT ![id] = @ + 1]
            /\ UNCHANGED <<read_streams, errored>>
       ELSE TRUE
    /\ UNCHANGED <<debug_assertions, apiVars>>

\* read_streams.next() yields a read error: forward_incoming_tcp_data
\* returns it, start logs it; the ReaderStream ends on its next poll.
ReadError(id) ==
    /\ worker = "running"
    /\ id \in read_streams \ errored
    /\ errored' = errored \cup {id}
    /\ last' = Event("ReadError", client_connections[id], 0, id, "failed")
    /\ UNCHANGED <<debug_assertions, apiVars, issued, queue, worker,
                   stealerVars, write_streams, read_streams,
                   client_connections, index_allocator, reads, peer_got, sink>>

\* Mutant of ReadStreamsAfterEnd: the ended stream stays in the map.
ReadStreamsKeptAfterEnd(id) == read_streams

\* The StreamMap yields (connection_id, None) for an ended stream once, and
\* removes it.
ReadStreamsAfterEnd(id) == read_streams \ {id}

\* read_streams.next() yields the end of the stream (EOF of the peer, or
\* the poll after an error); the StreamMap removes the ended stream.
ReadEnd(id) ==
    /\ worker = "running"
    /\ id \in read_streams
    /\ forward_incoming_tcp_data(id, Close(id), "Close")
    /\ IF worker' = "running"
       THEN /\ read_streams' = ReadStreamsAfterEnd(id)
            /\ errored' = errored \ {id}
            /\ UNCHANGED reads
       ELSE TRUE
    /\ UNCHANGED <<debug_assertions, apiVars, issued>>

\* cancellation_token.cancelled(): the loop breaks.
Cancelled ==
    /\ worker = "running"
    /\ Terminate(Event("Cancelled", NoClient, 0, -1, "ok"))
    /\ UNCHANGED <<debug_assertions, apiVars, issued>>

(***************************************************************************)
(* One HTTP-filtered connection: the HyperHandler service of its hyper     *)
(* task, and the stealer's side of the unmatched channel.                  *)
(***************************************************************************)
NoFilter == 0

\* A regex is modelled by the one header string it matches.
is_match(filter, header) == filter # NoFilter /\ filter = header

\* HyperHandler::call, filter matching: the headers in order, for each the
\* entries of the filter map in iteration order; the first hit wins.
MatchingClients(headers, i) ==
    {c \in Clients : is_match(client_filters[c], headers[i])}

FirstMatch(headers) ==
    LET hits == {i \in 1..Len(headers) : MatchingClients(headers, i) # {}}
    IN  IF hits = {} THEN {}
        ELSE MatchingClients(headers, CHOOSE i \in hits : \A j \in hits : i <= j)

\* Mutant of NextRequestId: the increment is missing.
SameRequestId(rid) == rid

\* self.request_id += 1, in both branches of call
NextRequestId(rid) == rid + 1

InitHttp ==
    /\ client_filters \in [Clients -> {NoFilter} \cup Headers]
    /\ request_id = 0
    /\ hyper_task = "serving"
    /\ in_flight = {}
    /\ matched_tx = <<>>
    /\ unmatched_tx = <<>>
    /\ arrived = <<>>
    /\ held = {}
    /\ written = <<>>
    /\ calls = <<>>
    /\ last_headers = <<>>
    /\ proxied = {}

\* The request handed to the matched channel with its one-shot sender.
MatchedHttpRequest(c, rid) == [client_id |-> c, request_id |-> rid]

\* call, matched branch: the future that would send the request on the
\* matched channel is built and dropped without being polled, which drops
\* the one-shot sender with it; blocking_recv().unwrap() then panics.
CallMatched(headers) ==
    /\ hyper_task = "serving"
    /\ request_id < MaxRequests
    /\ FirstMatch(headers) # {}
    /\ \E client_id \in FirstMatch(headers) :
            calls' = Append(calls, client_id)
    /\ last_headers' = headers
    /\ request_id' = NextRequestId(request_id)
    /\ hyper_task' = "panicked"
    /\ in_flight' = {}
    /\ UNCHANGED <<client_filters, matched_tx, unmatched_tx, arrived, held,
                   written, proxied>>

\* call, unmatched branch: the request id is taken and the future that
\* proxies the request to the original destination is returned.
CallUnmatched(headers) ==
    /\ hyper_task = "serving"
    /\ request_id < MaxRequests
    /\ FirstMatch(headers) = {}
    /\ calls' = Append(calls, NoClient)
    /\ last_headers' = headers
    /\ request_id' = NextRequestId(request_id)
    /\ in_flight' = in_flight \cup {request_id'}
    /\ UNCHANGED <<client_filters, hyper_task, matched_tx, unmatched_tx,
                   arrived, held, written, proxied>>

\* Mutant of ServedStream: hyper serves the stolen TcpStream itself.
ServedOriginalStream == "tcp_stream"

\* http1::Builder::serve_connection(hyper_stream, ..): hyper reads the
\* requests from its end of the duplex and writes what call returns there.
ServedStream == "hyper_stream"

\* Response::new(DUMMY_RESPONSE_UNMATCHED) for a request, as it is written.
Dummy(rid) == 0 - rid

\* The dummy responses that went into the duplex; nothing reads them.
interceptor_stream == {Dummy(rid) : rid \in proxied}

\* unmatched_request completes: the response of the original destination,
\* or the error of the connect, handshake or request, is sent on tx, and
\* call returns the dummy response, which hyper writes on the stream it
\* serves.
UnmatchedRequestDone(rid, ok) ==
    /\ hyper_task = "serving"
    /\ rid \in in_flight
    /\ in_flight' = in_flight \ {rid}
    /\ unmatched_tx' = Append(unmatched_tx, [request_id |-> rid, ok |-> ok])
    /\ proxied' = proxied \cup {rid}
    /\ written' = IF ServedStream = "tcp_stream"
                  THEN Append(written, Dummy(rid))
                  ELSE written
    /\ UNCHANGED <<client_filters, request_id, hyper_task, matched_tx,
                   arrived, held, calls, last_headers>>

\* The stealer takes a response from the unmatched channel.  A response is
\* written when all responses with lower request ids have been written;
\* until then it is held.
RECURSIVE Flush(_, _)
Flush(out, waiting) ==
    IF (Len(out) + 1) \in waiting
    THEN Flush(Append(out, Len(out) + 1), waiting \ {Len(out) + 1})
    ELSE [written |-> out, held |-> waiting]

ResponseArrives ==
    /\ unmatched_tx # <<>>
    /\ unmatched_tx' = Tail(unmatched_tx)
    /\ LET r == Head(unmatched_tx) IN
        IF r.ok
        THEN /\ arrived' = Append(arrived, r.request_id)
             /\ written' = Flush(written, held \cup {r.request_id}).written
             /\ held' = Flush(written, held \cup {r.request_id}).held
        ELSE UNCHANGED <<arrived, written, held>>
    /\ UNCHANGED <<client_filters, request_id, hyper_task, in_flight,
                   matched_tx, calls, last_headers, proxied>>

\* The connection ends: serve_connection returns.
HyperTaskEnds ==
    /\ hyper_task = "serving"
    /\ in_flight = {}
    /\ hyper_task' = "ended"
    /\ UNCHANGED <<client_filters, request_id, in_flight, matched_tx,
                   unmatched_tx, arrived, held, written, calls, last_headers,
                   proxied>>

HeaderLists == {<<h>> : h \in Headers} \cup (Headers \X Headers)

\* No connection of a filtered port.
InitFilter ==
    /\ http_version = "None"
    /\ filter_task = "none"
    /\ peer_sent = 0
    /\ tcp_in = <<>>
    /\ dest_got = <<>>
    /\ dest_sent = 0
    /\ dest_in = <<>>
    /\ peer_back = <<>>

(***************************************************************************)
(* One connection of a filtered port: HttpFilterBuilder.                   *)
(***************************************************************************)
\* Mutant of AfterPeek: the probe reads the bytes it looks at.
AfterRead(buffer, peeked_amount) ==
    SubSeq(buffer, peeked_amount + 1, Len(buffer))

\* stolen_connection.peek(&mut buffer): the bytes stay in the stream.
AfterPeek(buffer, peeked_amount) == buffer

\* The sequence 1, 2, .., n: the bytes a side has sent so far.
Sent(n) == [i \in 1..n |-> i]

\* The peer of the stolen connection sends a byte.
PeerSends ==
    /\ peer_sent < MaxBytes
    /\ http_version # "Empty"
    /\ filter_task \in {"none", "connecting", "copying"}
    /\ peer_sent' = peer_sent + 1
    /\ tcp_in' = Append(tcp_in, peer_sent + 1)
    /\ UNCHANGED <<http_version, filter_task, dest_got, dest_sent, dest_in,
                   peer_back>>

\* HttpFilterBuilder::new: peek at up to 64 bytes; 0 bytes (the peer has
\* closed) is Err(Empty), otherwise HttpVersion::new classifies the bytes.
Probe(peeked_amount, version) ==
    /\ http_version = "None"
    /\ peeked_amount = Len(tcp_in)
    /\ http_version' = IF peeked_amount = 0 THEN "Empty" ELSE version
    /\ tcp_in' = AfterPeek(tcp_in, peeked_amount)
    /\ UNCHANGED <<filter_task, peer_sent, dest_got, dest_sent, dest_in,
                   peer_back>>

\* HttpFilterBuilder::start, V1: the hyper task serves the connection.
StartHyper ==
    /\ http_version = "V1"
    /\ filter_task = "none"
    /\ filter_task' = "hyper"
    /\ UNCHANGED <<http_version, peer_sent, tcp_in, dest_got, dest_sent,
                   dest_in, peer_back>>

\* HttpFilterBuilder::start, V2 | NotHttp: the passthrough task is spawned
\* and no HttpFilter is returned.
StartPassthrough ==
    /\ http_version \in {"V2", "NotHttp"}
    /\ filter_task = "none"
    /\ filter_task' = "connecting"
    /\ UNCHANGED <<http_version, peer_sent, tcp_in, dest_got, dest_sent,
                   dest_in, peer_back>>

\* TcpStream::connect(original_address).await?
Connect(ok) ==
    /\ filter_task = "connecting"
    /\ filter_task' = IF ok THEN "copying" ELSE "failed"
    /\ UNCHANGED <<http_version, peer_sent, tcp_in, dest_got, dest_sent,
                   dest_in, peer_back>>

\* copy_bidirectional, from the stolen stream to the original destination.
CopyToDestination ==
    /\ filter_task = "copying"
    /\ tcp_in # <<>>
    /\ dest_got' = Append(dest_got, Head(tcp_in))
    /\ tcp_in' = Tail(tcp_in)
    /\ UNCHANGED <<http_version, filter_task, peer_sent, dest_sent, dest_in,
                   peer_back>>

\* The original destination sends a byte.
DestinationSends ==
    /\ filter_task = "copying"
    /\ dest_sent < MaxBytes
    /\ dest_sent' = dest_sent + 1
    /\ dest_in' = Append(dest_in, dest_sent + 1)
    /\ UNCHANGED <<http_version, filter_task, peer_sent, tcp_in, dest_got,
                   peer_back>>

\* copy_bidirectional, from the original destination to the stolen stream.
CopyToPeer ==
    /\ filter_task = "copying"
    /\ dest_in # <<>>
    /\ peer_back' = Append(peer_back, Head(dest_in))
    /\ dest_in' = Tail(dest_in)
    /\ UNCHANGED <<http_version, filter_task, peer_sent, tcp_in, dest_got,
                   dest_sent>>

\* copy_bidirectional returns: both sides have closed and all is copied.
PassthroughEnds ==
    /\ filter_task = "copying"
    /\ tcp_in = <<>>
    /\ dest_in = <<>>
    /\ filter_task' = "done"
    /\ UNCHANGED <<http_version, peer_sent, tcp_in, dest_got, dest_sent,
                   dest_in, peer_back>>

(***************************************************************************)
(* The layer's steal handler: TcpStealHandler (layer/src/tcp_steal.rs).    *)
(***************************************************************************)
ConnectionUnsubscribe(id) == [type |-> "ConnectionUnsubscribe", a |-> id, b |-> 0]
HttpResponse(id, rid) == [type |-> "HttpResponse", a |-> id, b |-> rid]
HttpRequest(id, rid) == [connection_id |-> id, request_id |-> rid]

LayerEvent(k, id, res) == [kind |-> k, conn |-> id, result |-> res]

\* TcpStealHandler::default()
InitLayer ==
    /\ layer = "running"
    /\ layer_issued = 0
    /\ announced = 0
    /\ layer_write_streams = {}
    /\ layer_read_streams = {}
    /\ layer_errored = {}
    /\ request_senders = {}
    /\ http_tasks = {}
    /\ requests = {}
    /\ agent_sent = [id \in LayerConns |-> <<>>]
    /\ app_got = [id \in LayerConns |-> <<>>]
    /\ app_reads = [id \in LayerConns |-> 0]
    /\ wire = <<>>
    /\ layer_last = LayerEvent("None", -1, "ok")

\* A handler returns Err(LayerError): the caller of the handler, which is
\* not part of this file, goes on with the next message or gives up.
LayerErr(ev) ==
    /\ layer' \in {"running", "failed"}
    /\ layer_last' = ev

\* handle_new_connection: dial the local application, split the stream and
\* register both halves under the connection id.
handle_new_connection(id, dial_ok) ==
    IF dial_ok
    THEN /\ layer_write_streams' = layer_write_streams \cup {id}
         /\ layer_read_streams' = layer_read_streams \cup {id}
         /\ layer_last' = LayerEvent("NewConnection", id, "ok")
         /\ UNCHANGED layer
    ELSE \* create_local_stream(..).await?
         /\ LayerErr(LayerEvent("NewConnection", id, "failed"))
         /\ UNCHANGED <<layer_write_streams, layer_read_streams>>

\* The agent announces a connection, under a connection id it has not used.
LayerNewConnection(dial_ok) ==
    /\ layer = "running"
    /\ layer_issued < MaxLayerOps
    /\ announced < MaxConns
    /\ layer_issued' = layer_issued + 1
    /\ announced' = announced + 1
    /\ handle_new_connection(announced, dial_ok)
    /\ UNCHANGED <<layer_errored, request_senders, http_tasks, requests,
                   agent_sent, app_got, app_reads, wire>>

\* Mutant of WrittenToApp: the new bytes come out ahead of the earlier ones.
WrittenToAppInFront(got, bytes) == <<bytes>> \o got

\* connection.write_all(&data.bytes[..]): all the bytes, after those written
\* before.
WrittenToApp(got, bytes) == Append(got, bytes)

\* handle_new_data: the write half is taken out of the map, written to, and
\* put back when the write went well.
handle_new_data(id, bytes, write_ok) ==
    IF id \notin layer_write_streams
    THEN \* Err(LayerError::NoConnectionId(connection_id))
         /\ LayerErr(LayerEvent("Data", id, "failed"))
         /\ UNCHANGED <<layer_write_streams, app_got>>
    ELSE IF write_ok
    THEN /\ app_got' = [app_got EXCEPT ![id] = WrittenToApp(@, bytes)]
         /\ layer_last' = LayerEvent("Data", id, "ok")
         /\ UNCHANGED <<layer, layer_write_streams>>
    ELSE \* write_all(..).await? after write_streams.remove(..)
         /\ layer_write_streams' = layer_write_streams \ {id}
         /\ LayerErr(LayerEvent("Data", id, "write failed"))
         /\ UNCHANGED app_got

\* The agent sends bytes of a connection it has announced.
LayerData(id, write_ok) ==
    /\ layer = "running"
    /\ layer_issued < MaxLayerOps
    /\ id < announced
    /\ layer_issued' = layer_issued + 1
    /\ agent_sent' = [agent_sent EXCEPT ![id] = Append(@, layer_issued + 1)]
    /\ handle_new_data(id, layer_issued + 1, write_ok)
    /\ UNCHANGED <<announced, layer_read_streams, layer_errored,
                   request_senders, http_tasks, requests, app_reads, wire>>

\* Mutant of LayerStreamsAfterClose: the halves stay in the maps.
LayerStreamsKeptAfterClose(streams, id) == streams

\* handle_close: read_streams.remove(..), write_streams.remove(..)
LayerStreamsAfterClose(streams, id) == streams \ {id}

handle_close(id) ==
    /\ layer_read_streams' = LayerStreamsAfterClose(layer_read_streams, id)
    /\ layer_write_streams' = LayerStreamsAfterClose(layer_write_streams, id)
    /\ layer_errored' = layer_errored \ {id}
    /\ layer_last' = LayerEvent("Close", id, "ok")

\* The agent closes a connection it has announced.
LayerClose(id) ==
    /\ layer = "running"
    /\ layer_issued < MaxLayerOps
    /\ id < announced
    /\ layer_issued' = layer_issued + 1
    /\ handle_close(id)
    /\ UNCHANGED <<layer, announced, request_senders, http_tasks,
                   requests, agent_sent, app_got, app_reads, wire>>

\* handle_http_request: the sender of the connection is looked up or made
\* (create_http_connection), a task is spawned that sends the request and
\* drops the response, and the handler ends in todo!().
handle_http_request(id, rid, connect_ok) ==
    /\ request_senders' =
            IF connect_ok THEN request_senders \cup {id} ELSE request_senders
    /\ http_tasks' =
            IF id \in request_senders'
            THEN http_tasks \cup {HttpRequest(id, rid)} ELSE http_tasks
    /\ layer' = "panicked"
    /\ layer_last' = LayerEvent("HttpRequest", id, "panicked")

\* The agent sends a matched request of a filtered connection; the request
\* ids of a connection count up from 1.
LayerHttpRequest(id, rid, connect_ok) ==
    /\ layer = "running"
    /\ layer_issued < MaxLayerOps
    /\ rid = 1 + Cardinality({r \in requests : r.connection_id = id})
    /\ layer_issued' = layer_issued + 1
    /\ requests' = requests \cup {HttpRequest(id, rid)}
    /\ handle_http_request(id, rid, connect_ok)
    /\ UNCHANGED <<announced, layer_write_streams, layer_read_streams,
                   layer_errored, agent_sent, app_got, app_reads, wire>>

\* The spawned task: `let res = sender.send_request(..).await?;` and the
\* response is dropped with the task.
SendRequestTaskEnds(request) ==
    /\ request \in http_tasks
    /\ http_tasks' = http_tasks \ {request}
    /\ UNCHANGED <<layer, layer_issued, announced, layer_write_streams,
                   layer_read_streams, layer_errored, request_senders,
                   requests, agent_sent, app_got, app_reads, wire, layer_last>>

\* TcpStealHandler::next, Some(Ok(bytes)): a Data message goes on the wire.
LayerRead(id) ==
    /\ layer = "running"
    /\ layer_issued < MaxLayerOps
    /\ id \in layer_read_streams \ layer_errored
    /\ layer_issued' = layer_issued + 1
    /\ app_reads' = [app_reads EXCEPT ![id] = @ + 1]
    /\ wire' = Append(wire, Data(id, app_reads[id] + 1))
    /\ layer_last' = LayerEvent("Read", id, "ok")
    /\ UNCHANGED <<layer, announced, layer_write_streams, layer_read_streams,
                   layer_errored, request_senders, http_tasks, requests,
                   agent_sent, app_got>>

\* TcpStealHandler::next, Some(Err(err)): logged, next returns None; the
\* ReaderStream ends on its next poll.
LayerReadError(id) ==
    /\ layer = "running"
    /\ id \in layer_read_streams \ layer_errored
    /\ layer_errored' = layer_errored \cup {id}
    /\ layer_last' = LayerEvent("ReadError", id, "failed")
    /\ UNCHANGED <<layer, layer_issued, announced, layer_write_streams,
                   layer_read_streams, request_senders, http_tasks, requests,
                   agent_sent, app_got, app_reads, wire>>

\* Mutant of LayerReadStreamsAfterEnd: the ended stream stays in the map.
LayerReadStreamsKeptAfterEnd(id) == layer_read_streams

\* read_streams.next() yields (connection_id, None) for an ended stream
\* once, and the StreamMap removes it.
LayerReadStreamsAfterEnd(id) == layer_read_streams \ {id}

\* TcpStealHandler::next, None: the stream has ended (EOF of the local
\* application, or the poll after an error), the StreamMap has removed it
\* and ConnectionUnsubscribe goes on the wire.
LayerReadEnd(id) ==
    /\ layer = "running"
    /\ id \in layer_read_streams
    /\ layer_read_streams' = LayerReadStreamsAfterEnd(id)
    /\ layer_errored' = layer_errored \ {id}
    /\ wire' = Append(wire, ConnectionUnsubscribe(id))
    /\ layer_last' = LayerEvent("ReadEnd", id, "ok")
    /\ UNCHANGED <<layer, layer_issued, announced, layer_write_streams,
                   request_senders, http_tasks, requests, agent_sent, app_got,
                   app_reads>>

(***************************************************************************)
(* The probe's classification: HttpVersion::new.                           *)
(***************************************************************************)
\* const H2_PREFACE: &[u8] = b"PRI * HTTP/2.0"
H2_PREFACE == <<80, 82, 73, 32, 42, 32, 72, 84, 84, 80, 47, 50, 46, 48>>

\* &H2_PREFACE[..peeked_amount.min(H2_PREFACE.len())]
PrefaceSlice(peeked_amount) ==
    SubSeq(H2_PREFACE, 1,
           IF peeked_amount < Len(H2_PREFACE) THEN peeked_amount
           ELSE Len(H2_PREFACE))

\* HttpVersion::new: V2 when the buffer equals the slice of the preface,
\* V1 when httparse accepts the buffer as (the start of) a request.
HttpVersionNew(buffer, h2_preface, parses) ==
    IF buffer = h2_preface THEN "V2"
    ELSE IF parses THEN "V1"
    ELSE "NotHttp"

\* The peeked buffers: a prefix of the preface, then up to MaxExtra bytes of
\* two kinds, and not empty.
RECURSIVE BytesUpTo(_)
BytesUpTo(n) ==
    IF n = 0 THEN {<<>>}
    ELSE BytesUpTo(n - 1) \cup
         {Append(b, x) : b \in {c \in BytesUpTo(n - 1) : Len(c) = n - 1},
                         x \in {13, 80}}

ProbeBuffers ==
    {SubSeq(H2_PREFACE, 1, k) \o extra :
        k \in 0..Len(H2_PREFACE), extra \in BytesUpTo(MaxExtra)} \ {<<>>}

\* HttpFilterBuilder::new on a peeked buffer: the buffer and the slice of the
\* preface of its length, at most the whole preface, go to HttpVersion::new.
Classify(parses) ==
    /\ http_version = "None"
    /\ http_version' =
            HttpVersionNew(tcp_in, PrefaceSlice(Len(tcp_in)), parses)
    /\ UNCHANGED <<filter_task, peer_sent, tcp_in, dest_got, dest_sent,
                   dest_in, peer_back>>

\* PortSteal: the two kinds of subscription of the protocol.  The handle
\* and StealerCommand::PortSubscribe take the port alone, so both kinds reach
\* the worker as PortSubscribe(port).
Steal == 0
HttpFilterSteal == 1

ApiPortSteal(c, p, steal) == ApiSend(c, "PortSubscribe", p, steal)

\* The ports held by a Steal subscription after the step.
FullPortsAfter ==
    {p \in Ports :
        /\ port_subscriptions'[p] # <<>>
        /\ \/ p \in full_ports
           \/ /\ port_subscriptions[p] = <<>>
              /\ queue # <<>>
              /\ Head(queue).kind = "PortSubscribe"
              /\ Head(queue).data = Steal}

\* A step of the handles or of the worker.
WorkerStep ==
    /\ full_ports' = FullPortsAfter
    /\ UNCHANGED <<httpVars, passVars, layerVars>>

\* The worker with no HTTP-filtered connection.
Init ==
    /\ InitWorker
    /\ InitHttp
    /\ InitFilter
    /\ InitLayer
    /\ client_filters = [c \in Clients |-> NoFilter]

Next ==
    \/ \E c \in Clients : ApiNew(c) /\ WorkerStep
    \/ \E c \in Clients : ApiDrop(c) /\ WorkerStep
    \/ \E c \in Clients, p \in Ports : ApiPortSubscribe(c, p) /\ WorkerStep
    \/ \E c \in Clients, p \in Ports : ApiPortUnsubscribe(c, p) /\ WorkerStep
    \/ \E c \in Clients, id \in KnownIds :
            ApiConnectionUnsubscribe(c, id) /\ WorkerStep
    \/ \E c \in Clients, id \in KnownIds : ApiClientData(c, id) /\ WorkerStep
    \/ HandleNewClient /\ WorkerStep
    \/ HandlePortSubscribe /\ WorkerStep
    \/ HandlePortUnsubscribe /\ WorkerStep
    \/ HandleClientClose /\ WorkerStep
    \/ HandleConnectionUnsubscribe /\ WorkerStep
    \/ HandleResponseData /\ WorkerStep
    \/ \E p \in Ports : Accept(p) /\ WorkerStep
    \/ \E id \in ConnIds : ReadData(id) /\ WorkerStep
    \/ \E id \in ConnIds : ReadError(id) /\ WorkerStep
    \/ \E id \in ConnIds : ReadEnd(id) /\ WorkerStep
    \/ Cancelled /\ WorkerStep

HandleCommand ==
    \/ HandleNewClient
    \/ HandlePortSubscribe
    \/ HandlePortUnsubscribe
    \/ HandleClientClose
    \/ HandleConnectionUnsubscribe
    \/ HandleResponseData

Spec == Init /\ [][Next]_vars

\* The worker under the fair selection of the branches of its select loop.
FairSpec ==
    /\ Spec
    /\ WF_vars(HandleCommand /\ WorkerStep)

\* The worker and layers that ask for both kinds of subscription.
NextSteal ==
    \/ \E c \in Clients : ApiNew(c) /\ WorkerStep
    \/ \E c \in Clients : ApiDrop(c) /\ WorkerStep
    \/ \E c \in Clients, p \in Ports, steal \in {Steal, HttpFilterSteal} :
            ApiPortSteal(c, p, steal) /\ WorkerStep
    \/ \E c \in Clients, p \in Ports : ApiPortUnsubscribe(c, p) /\ WorkerStep
    \/ HandleNewClient /\ WorkerStep
    \/ HandlePortSubscribe /\ WorkerStep
    \/ HandlePortUnsubscribe /\ WorkerStep
    \/ HandleClientClose /\ WorkerStep

SpecSteal == Init /\ [][NextSteal]_vars

\* One HTTP-filtered connection, the worker left aside.
InitHttpConnection ==
    /\ InitWorker
    /\ debug_assertions = FALSE
    /\ InitHttp
    /\ InitFilter
    /\ InitLayer

HttpStep == UNCHANGED <<workerVars, passVars, layerVars>>

NextHttp ==
    \/ \E hs \in HeaderLists : CallMatched(hs) /\ HttpStep
    \/ \E hs \in HeaderLists : CallUnmatched(hs) /\ HttpStep
    \/ \E rid \in 0..MaxRequests, ok \in BOOLEAN :
            UnmatchedRequestDone(rid, ok) /\ HttpStep
    \/ ResponseArrives /\ HttpStep
    \/ HyperTaskEnds /\ HttpStep

SpecHttp == InitHttpConnection /\ [][NextHttp]_vars

\* One connection accepted on a filtered port, from the probe on.
FilterStep == UNCHANGED <<workerVars, httpVars, layerVars>>

NextFilter ==
    \/ PeerSends /\ FilterStep
    \/ \E n \in 0..MaxBytes, version \in {"V1", "V2", "NotHttp"} :
            Probe(n, version) /\ FilterStep
    \/ StartHyper /\ FilterStep
    \/ StartPassthrough /\ FilterStep
    \/ \E ok \in BOOLEAN : Connect(ok) /\ FilterStep
    \/ CopyToDestination /\ FilterStep
    \/ DestinationSends /\ FilterStep
    \/ CopyToPeer /\ FilterStep
    \/ PassthroughEnds /\ FilterStep

SpecFilter == InitHttpConnection /\ [][NextFilter]_vars

(***************************************************************************)
(* HttpFilterManager: the worker's side of the filter map of a port.       *)
(***************************************************************************)
\* What the manager did last, with the regex that went in or came out.
FilterEvent(k, c, f, res) ==
    [kind |-> k, client |-> c, port |-> 0, conn |-> -1, result |-> res,
     filter |-> f]

\* DashMap::insert: the value goes in; the old value of the key, if there
\* was one, is returned (NoFilter stands for None).
insert(map, k, v) == [map |-> [map EXCEPT ![k] = v], old |-> map[k]]

\* Mutant of remove: the entry stays in the map.
remove_kept(map, k) == [map |-> map, old |-> map[k]]

\* DashMap::remove: the entry goes and is returned.
remove(map, k) == [map |-> [map EXCEPT ![k] = NoFilter], old |-> map[k]]

\* HttpFilterManager::new, for the first filtered subscription of the port:
\* a fresh map, insert(client_id, filter).expect("First insertion!").  The
\* insert into the fresh map returns None and expect panics on None.
HttpFilterManagerNew(client_id, filter) ==
    LET inserted == insert([c \in Clients |-> NoFilter], client_id, filter)
    IN  /\ worker = "running"
        /\ client_filters = [c \in Clients |-> NoFilter]
        /\ IF inserted.old = NoFilter
           THEN /\ Terminate(FilterEvent("FilterManagerNew", client_id,
                                         filter, "panicked"))
                /\ UNCHANGED client_filters
           ELSE /\ client_filters' = inserted.map
                /\ last' = FilterEvent("FilterManagerNew", client_id, filter,
                                       "ok")
                /\ UNCHANGED <<queue, worker, stealerVars, connVars, sink>>
        /\ UNCHANGED <<debug_assertions, apiVars, issued, full_ports>>
        /\ UNCHANGED <<request_id, hyper_task, in_flight, matched_tx,
                       unmatched_tx, arrived, held, written, calls,
                       last_headers, proxied>>
        /\ UNCHANGED <<passVars, layerVars>>

\* HttpFilterManager::new_client
FilterNewClient(client_id, filter) ==
    /\ worker = "running"
    /\ client_filters # [c \in Clients |-> NoFilter]
    /\ issued < MaxFilterOps
    /\ issued' = issued + 1
    /\ client_filters' = insert(client_filters, client_id, filter).map
    /\ last' = FilterEvent("NewClient", client_id, filter, "ok")
    /\ UNCHANGED <<debug_assertions, apiVars, queue, worker, stealerVars,
                   connVars, sink, full_ports>>
    /\ UNCHANGED <<request_id, hyper_task, in_flight, matched_tx,
                   unmatched_tx, arrived, held, written, calls, last_headers,
                   proxied>>
    /\ UNCHANGED <<passVars, layerVars>>

\* HttpFilterManager::remove_client
FilterRemoveClient(client_id) ==
    /\ worker = "running"
    /\ client_filters # [c \in Clients |-> NoFilter]
    /\ issued < MaxFilterOps
    /\ issued' = issued + 1
    /\ client_filters' = remove(client_filters, client_id).map
    /\ last' = FilterEvent("RemoveClient", client_id,
                           remove(client_filters, client_id).old, "ok")
    /\ UNCHANGED <<debug_assertions, apiVars, queue, worker, stealerVars,
                   connVars, sink, full_ports>>
    /\ UNCHANGED <<request_id, hyper_task, in_flight, matched_tx,
                   unmatched_tx, arrived, held, written, calls, last_headers,
                   proxied>>
    /\ UNCHANGED <<passVars, layerVars>>

\* The manager of a port and the filter matching of the handler of one
\* connection of the port, which share the filter map.
NextManager ==
    \/ \E c \in Clients, f \in Headers : HttpFilterManagerNew(c, f)
    \/ \E c \in Clients, f \in Headers : FilterNewClient(c, f)
    \/ \E c \in Clients : FilterRemoveClient(c)
    \/ \E hs \in HeaderLists : CallMatched(hs) /\ HttpStep
    \/ \E hs \in HeaderLists : CallUnmatched(hs) /\ HttpStep

SpecManager == InitHttpConnection /\ [][NextManager]_vars

\* A connection of a filtered port from the accept on: the accept path takes
\* a ConnectionId from the allocator and builds the StolenConnection with it
\* (StolenConnection::new), then hands it to HttpFilterBuilder::new.
StolenConnectionNew ==
    /\ index_allocator = 0
    /\ http_version = "None"
    /\ index_allocator' = index_allocator + 1
    /\ UNCHANGED <<debug_assertions, handle, try_send_result, api_panicked,
                   queue, issued, worker, port_subscriptions, clients,
                   iptables, rules, write_streams, read_streams, errored,
                   client_connections, reads, peer_got, sink, last,
                   full_ports>>
    /\ UNCHANGED <<httpVars, passVars, layerVars>>

\* The StolenConnection of the probed connection exists.
Stolen == index_allocator > 0

NextStolen ==
    \/ StolenConnectionNew
    \/ Stolen /\ PeerSends /\ FilterStep
    \/ \E n \in 0..MaxBytes, version \in {"V1", "V2", "NotHttp"} :
            Stolen /\ Probe(n, version) /\ FilterStep
    \/ Stolen /\ StartHyper /\ FilterStep
    \/ Stolen /\ StartPassthrough /\ FilterStep
    \/ \E ok \in BOOLEAN : Stolen /\ Connect(ok) /\ FilterStep
    \/ Stolen /\ CopyToDestination /\ FilterStep
    \/ Stolen /\ DestinationSends /\ FilterStep
    \/ Stolen /\ CopyToPeer /\ FilterStep
    \/ Stolen /\ PassthroughEnds /\ FilterStep

SpecStolen == InitHttpConnection /\ [][NextStolen]_vars

\* The probe on each of the peeked buffers.
InitProbe ==
    /\ InitWorker
    /\ debug_assertions = FALSE
    /\ InitHttp
    /\ client_filters = [c \in Clients |-> NoFilter]
    /\ InitLayer
    /\ http_version = "None"
    /\ filter_task = "none"
    /\ peer_sent = 0
    /\ tcp_in \in ProbeBuffers
    /\ dest_got = <<>>
    /\ dest_sent = 0
    /\ dest_in = <<>>
    /\ peer_back = <<>>

NextProbe == \E parses \in BOOLEAN : Classify(parses) /\ FilterStep

SpecProbe == InitProbe /\ [][NextProbe]_vars

\* The layer's steal handler and what the agent and the local application
\* send to it.
LayerStep == UNCHANGED <<workerVars, httpVars, passVars>>

NextLayer ==
    \/ \E dial_ok \in BOOLEAN : LayerNewConnection(dial_ok) /\ LayerStep
    \/ \E id \in LayerConns, write_ok \in BOOLEAN :
            LayerData(id, write_ok) /\ LayerStep
    \/ \E id \in LayerConns : LayerClose(id) /\ LayerStep
    \/ \E id \in LayerConns, rid \in 1..MaxRequests, connect_ok \in BOOLEAN :
            LayerHttpRequest(id, rid, connect_ok) /\ LayerStep
    \/ \E request \in http_tasks : SendRequestTaskEnds(request) /\ LayerStep
    \/ \E id \in LayerConns : LayerRead(id) /\ LayerStep
    \/ \E id \in LayerConns : LayerReadError(id) /\ LayerStep
    \/ \E id \in LayerConns : LayerReadEnd(id) /\ LayerStep

InitLayerAlone ==
    /\ Init
    /\ debug_assertions = FALSE

SpecLayer == InitLayerAlone /\ [][NextLayer]_vars

\* The layer with its handlers and its spawned tasks scheduled fairly.
FairSpecLayer == SpecLayer /\ WF_vars(NextLayer)

(***************************************************************************)
(* Properties.                                                             *)
(***************************************************************************)
\* The step is the worker handling the command of kind k at the head of the
\* command channel.
Handles(k) ==
    /\ worker = "running"
    /\ queue # <<>>
    /\ Head(queue).kind = k
    /\ last'.kind = k
    /\ Len(queue') < Len(queue)

LastOf(seq) == seq[Len(seq)]

\* C1: in every reachable state each port is held by at most one client
\* with a full-port subscription.
C1_AtMostOneFullPortHolder ==
    \A p \in Ports : Cardinality(Range(port_subscriptions[p])) <= 1

\* A second client asked for a port that is held, and the port still has
\* its one holder.
C1_Witness ==
    /\ worker = "running"
    /\ last.kind = "PortSubscribe"
    /\ port_subscriptions[last.port] # <<>>
    /\ Head(port_subscriptions[last.port]) # last.client

\* C2: when client B's PortSubscribe(P) is handled while another client A
\* holds P (B registered, its response receiver alive), B receives
\* SubscribeResult(Err(PortAlreadyStolen(P))) and the subscriptions, the
\* redirect rules, the guard and the clients are unchanged; a connection
\* accepted for P right afterwards (A's receiver alive) is recorded for A and
\* announced to A.
C2_Rejected ==
    Handles("PortSubscribe") =>
        LET b == Head(queue).client
            p == Head(queue).arg
            holders == port_subscriptions[p]
        IN  (holders # <<>> /\ Head(holders) # b /\ b \in clients
                /\ ReceiverAlive(b)) =>
                /\ sink'[b] = Append(sink[b], SubscribeResultErr(p))
                /\ UNCHANGED <<port_subscriptions, rules, iptables, clients>>
                /\ worker' = "running"

C2_StillDelivered ==
    (/\ worker = "running"
     /\ last.kind = "PortSubscribe"
     /\ port_subscriptions[last.port] # <<>>
     /\ Head(port_subscriptions[last.port]) # last.client
     /\ ReceiverAlive(Head(port_subscriptions[last.port]))
     /\ last'.kind = "Accept"
     /\ last'.port = last.port
     /\ issued' = issued + 1) =>
        LET a == Head(port_subscriptions[last.port]) IN
        /\ client_connections'[index_allocator] = a
        /\ sink'[a] = Append(sink[a], NewConnection(index_allocator, last.port))
        /\ index_allocator \in write_streams' \cap read_streams'

C2_ConflictLeavesStateUnchanged == [][C2_Rejected /\ C2_StillDelivered]_vars

\* B was refused port P, and the connection accepted for P was announced to
\* the holder A.
C2_Witness ==
    /\ worker = "running"
    /\ last.kind = "Accept"
    /\ last.result = "ok"
    /\ sink[last.client] # <<>>
    /\ LastOf(sink[last.client]) = NewConnection(last.conn, last.port)
    /\ \E b \in Clients \ {last.client} :
            SubscribeResultErr(last.port) \in Range(sink[b])

\* C3: after every command the worker has handled, a port has its (one)
\* redirect rule installed if and only if some client holds a subscription
\* on it.
C3_RuleIffSubscribed ==
    \A p \in Ports : (p \in rules) <=> (port_subscriptions[p] # <<>>)

\* A port was unsubscribed and lost its rule while another port keeps its
\* subscriber and its rule.
C3_Witness ==
    /\ worker = "running"
    /\ last.kind = "PortUnsubscribe"
    /\ last.port \notin rules
    /\ SubscribeResultOk(last.port) \in Range(sink[last.client])
    /\ iptables = "Some"
    /\ \E p \in Ports : p \in rules /\ port_subscriptions[p] # <<>>

\* C4 (as claimed): when the holder of port P sends PortSubscribe(P) again,
\* it receives SubscribeResult(Ok(P)) and the subscriptions and the redirect
\* rules stay as they were after its first PortSubscribe(P).
C4_DoubleSubscribeIsIdempotentSuccess ==
    [][Handles("PortSubscribe") =>
        LET c == Head(queue).client
            p == Head(queue).arg
        IN  (p \in get_client_topics(port_subscriptions, c) /\ c \in clients
                /\ ReceiverAlive(c)) =>
                /\ sink'[c] = Append(sink[c], SubscribeResultOk(p))
                /\ UNCHANGED <<port_subscriptions, rules>>]_vars

\* C5 (as claimed): for every PortSubscribe(P) handled from a registered
\* client (its receiver alive), exactly one SubscribeResult for P is put on
\* that client's sink, whatever the outcome.
C5_ExactlyOneSubscribeResult ==
    [][Handles("PortSubscribe") =>
        LET c == Head(queue).client
            p == Head(queue).arg
        IN  (c \in clients /\ ReceiverAlive(c)) =>
                \E ok \in {0, 1} :
                    sink'[c] = Append(sink[c],
                        [type |-> "SubscribeResult", a |-> p, b |-> ok])]_vars

\* C6: after the worker has handled ClientClose for client C, C holds no
\* port subscription, no redirect rule remains for a port that only C was
\* subscribed to, and C's sink is no longer registered.
C6_ClientCloseRemovesClient ==
    [][Handles("ClientClose") =>
        LET c == Head(queue).client IN
        /\ \A p \in Ports : c \notin Range(port_subscriptions'[p])
        /\ c \notin clients'
        /\ \A p \in get_client_topics(port_subscriptions, c) :
                Range(port_subscriptions[p]) = {c} => p \notin rules']_vars

\* ClientClose removed the last subscriptions: the guard is still held,
\* with no subscription and no rule left.
C6_Witness ==
    /\ worker = "running"
    /\ last.kind = "ClientClose"
    /\ last.result = "ok"
    /\ iptables = "Some"
    /\ is_empty(port_subscriptions)
    /\ rules = {}
    /\ last.client \notin clients
    /\ \E p \in Ports : SubscribeResultOk(p) \in Range(sink[last.client])

\* C7 (as claimed): after the worker has handled ClientClose for client C it
\* holds no read half, no write half and no connection-to-client
\* association for any connection that was assigned to C.
C7_ClientCloseDropsConnections ==
    [][Handles("ClientClose") =>
        LET c == Head(queue).client IN
        \A id \in ConnIds : client_connections[id] = c =>
            /\ id \notin write_streams'
            /\ id \notin read_streams'
            /\ client_connections'[id] = NoClient]_vars

\* The redirect rules of client c are removed and its connections closed.
TornDown(c) ==
    /\ get_client_topics(port_subscriptions, c) = {}
    /\ \A id \in ConnIds : client_connections[id] = c =>
            id \notin write_streams \cup read_streams

\* C8 (as claimed): whenever a client's handle (with its response receiver)
\* is dropped while the worker is running, whatever the state of the command
\* channel, the worker eventually has that client's redirect rules removed
\* and its connections closed.
C8_DropLeadsToTeardown ==
    \A c \in Clients :
        (handle[c] = "dropped" /\ try_send_result[c] \in {"sent", "full"})
            ~> TornDown(c)

\* C9 (as claimed): dropping a handle after the worker has terminated is a
\* no-op: the failed try_send is ignored and the drop does not panic.
C9_DropAfterWorkerGoneIsNoOp ==
    \A c \in Clients : try_send_result[c] = "closed" => ~api_panicked[c]

C11_ResponseDataWrittenInOrder ==
    [][\A id \in ConnIds :
        /\ peer_got'[id] # peer_got[id] =>
                /\ Handles("ResponseData")
                /\ Head(queue).arg = id
                /\ peer_got'[id] = Append(peer_got[id], Head(queue).data)
                /\ \A i \in 1..Len(peer_got[id]) :
                        peer_got[id][i] < Head(queue).data
        /\ (/\ Handles("ResponseData")
            /\ Head(queue).arg = id
            /\ id \in write_streams
            /\ last'.result = "ok") =>
                peer_got'[id] = Append(peer_got[id], Head(queue).data)]_vars

\* Two ResponseData commands of one connection were written to its peer.
C11_Witness ==
    \E id \in ConnIds :
        /\ Len(peer_got[id]) >= 2
        /\ peer_got[id][1] < peer_got[id][2]
        /\ last.kind = "ResponseData"
        /\ last.conn = id

\* The messages of connection id among msgs, in their order.
ForConn(msgs, id) ==
    SelectSeq(msgs, LAMBDA msg :
        msg.type \in {"NewConnection", "Data", "Close"} /\ msg.a = id)

\* The messages before the i-th that are for the same connection.
Before(msgs, i) ==
    {j \in 1..(i - 1) :
        msgs[j].type # "SubscribeResult" /\ msgs[j].a = msgs[i].a}

\* In the sink of c, for each connection: NewConnection, then the chunks
\* read from the peer in their order without a gap, then at most one Close,
\* which is the last message and comes when every chunk read was delivered.
StreamOf(c) ==
    LET msgs == sink[c] IN
    \A i \in 1..Len(msgs) :
        msgs[i].type # "SubscribeResult" =>
            LET prev == Before(msgs, i) IN
            /\ (msgs[i].type = "NewConnection") <=> (prev = {})
            /\ \A j \in prev : msgs[j].type # "Close"
            /\ msgs[i].type = "Data" => msgs[i].b = Cardinality(prev)
            /\ msgs[i].type = "Close" =>
                    reads[msgs[i].a] = Cardinality(prev) - 1

\* No two clients have messages of one connection.
OneClientPerConnection ==
    \A c, d \in Clients :
        c # d =>
            \A i \in 1..Len(sink[c]), j \in 1..Len(sink[d]) :
                \/ sink[c][i].type = "SubscribeResult"
                \/ sink[d][j].type = "SubscribeResult"
                \/ sink[c][i].a # sink[d][j].a

WellFormedStreams ==
    /\ \A c \in Clients : StreamOf(c)
    /\ OneClientPerConnection

\* C12: for every stolen connection the sink of its client gets
\* NewConnection first, then the Data of the chunks read from the peer in
\* order, then one Close when the peer's stream ends (the client registered
\* and its receiver alive: the Close is then the last message the client
\* got), and nothing for that connection after the Close; no other client
\* gets a message for it.
C12_NewConnectionDataClose ==
    /\ WellFormedStreams
    /\ (/\ worker = "running"
        /\ last.kind = "Close"
        /\ last.result = "ok"
        /\ last.client \in clients
        /\ ReceiverAlive(last.client)) =>
            /\ sink[last.client] # <<>>
            /\ LastOf(sink[last.client]) = Close(last.conn)

\* A client got NewConnection, a Data and the Close of one connection.
C12_Witness ==
    \E c \in Clients, id \in ConnIds :
        /\ Len(ForConn(sink[c], id)) >= 3
        /\ LastOf(ForConn(sink[c], id)) = Close(id)
        /\ last.kind = "Close"

\* C13: the command channel is shared by the handles and first-in
\* first-out: a step leaves it alone, or a handle puts one command at its
\* end (NewClient as the first command of a handle, ClientClose as the one
\* sent by its drop, nothing after the drop), or the worker takes the command
\* at its head and handles that one, or the worker ends and the channel
\* closes.  The commands of one client are therefore handled in the order it
\* submitted them.
C13_ClientCommandsInOrder ==
    [][\/ queue' = queue
       \/ /\ queue' # <<>>
          /\ queue' = Append(queue, LastOf(queue'))
          /\ LET cmd == LastOf(queue') IN
                /\ cmd.client \in Clients
                /\ handle[cmd.client] # "dropped"
                /\ (cmd.kind = "NewClient") <=> (handle[cmd.client] = "none")
                /\ (cmd.kind = "ClientClose") <=>
                        (handle'[cmd.client] = "dropped")
       \/ /\ worker = "running"
          /\ queue # <<>>
          /\ queue' = Tail(queue)
          /\ last'.kind = Head(queue).kind
          /\ last'.client = Head(queue).client
       \/ /\ worker' = "stopped"
          /\ queue' = <<>>]_vars

\* The worker handled a client's ClientClose after its PortSubscribe while
\* the command of another client waits behind it in the channel.
C13_Witness ==
    /\ worker = "running"
    /\ last.kind = "ClientClose"
    /\ \E p \in Ports : SubscribeResultOk(p) \in Range(sink[last.client])
    /\ queue # <<>>
    /\ Head(queue).client # last.client

\* C14: a connection accepted for a port that has no subscriber is rejected
\* with UnexpectedConnection: no connection id is allocated, neither half
\* and no connection-to-client association is stored, no client gets a
\* message, and the accepted socket, held nowhere, is closed.
C14_UnexpectedConnectionRejected ==
    [][\A p \in Ports :
        (/\ worker = "running"
         /\ issued' = issued + 1
         /\ last'.kind = "Accept"
         /\ last'.port = p
         /\ port_subscriptions[p] = <<>>) =>
            /\ last'.result = "failed"
            /\ last'.conn = -1
            /\ index_allocator' = index_allocator
            /\ sink' = sink
            /\ write_streams' \subseteq write_streams
            /\ read_streams' \subseteq read_streams
            /\ index_allocator \notin write_streams' \cup read_streams'
            /\ \A id \in ConnIds :
                    client_connections'[id] \in
                        {NoClient, client_connections[id]}]_vars

\* A connection for a port without a subscriber was rejected while other
\* connections were in place.
C14_Witness ==
    /\ last.kind = "Accept"
    /\ last.result = "failed"
    /\ last.port \in Ports
    /\ last.client = NoClient
    /\ index_allocator > 0

\* The places of request rid on the matched channel.
Enqueued(rid) ==
    {j \in 1..Len(matched_tx) : matched_tx[j].request_id = rid}

\* C15 (as claimed): for every request that matched a client's filter,
\* once its handler is no longer pending, exactly one matched request with
\* the winning client_id and the request_id is on the matched channel.
C15_MatchedRequestEnqueuedOnce ==
    \A rid \in 1..Len(calls) :
        (calls[rid] # NoClient /\ rid \notin in_flight) =>
            /\ Cardinality(Enqueued(rid)) = 1
            /\ \A j \in Enqueued(rid) :
                    matched_tx[j] = MatchedHttpRequest(calls[rid], rid)

\* C16 (as claimed): every request whose handler is no longer pending took
\* exactly one path: a matched one was handed to the matched channel and not
\* sent to the original destination, an unmatched one was sent to the
\* original destination and not handed to the matched channel.
C16_ExactlyOnePath ==
    \A rid \in 1..Len(calls) :
        rid \notin in_flight =>
            /\ (calls[rid] # NoClient) <=> (Enqueued(rid) # {})
            /\ (calls[rid] = NoClient) <=> (rid \in proxied)

\* The clients whose regex matches at least one header of the request.
ClientsMatching(headers) ==
    {c \in Clients :
        \E i \in 1..Len(headers) : is_match(client_filters[c], headers[i])}

\* C17 (as claimed): a request is matched if and only if the regex of some
\* client matches one of its headers, and the winner is the matching client
\* that was inserted into the filter map first (the clients are inserted in
\* the order of their ids).
C17_FirstInsertedMatchingClientWins ==
    calls # <<>> =>
        LET matching == ClientsMatching(last_headers) IN
        IF matching = {}
        THEN LastOf(calls) = NoClient
        ELSE /\ LastOf(calls) \in matching
             /\ \A c \in matching : LastOf(calls) <= c

IsPrefix(a, b) == Len(a) <= Len(b) /\ a = SubSeq(b, 1, Len(a))

\* C18: on a connection the probe classified as HTTP/2 or not-HTTP no hyper
\* task serves it and no request is put on the matched channel; what the
\* original destination has received is, in order and unmodified, a prefix
\* of what the peer sent, the peeked bytes included, and while the copy runs
\* the rest waits in the stream; the same holds from the destination to the
\* peer.
C18_PassthroughCopiesEveryByte ==
    http_version \in {"V2", "NotHttp"} =>
        /\ filter_task # "hyper"
        /\ matched_tx = <<>>
        /\ IsPrefix(dest_got, Sent(peer_sent))
        /\ IsPrefix(peer_back, Sent(dest_sent))
        /\ filter_task \in {"copying", "done"} =>
                /\ dest_got \o tcp_in = Sent(peer_sent)
                /\ peer_back \o dest_in = Sent(dest_sent)

\* The passthrough of a not-HTTP connection has ended with all the bytes of
\* the peer at the destination and all those of the destination at the peer.
C18_Witness ==
    /\ http_version = "NotHttp"
    /\ filter_task = "done"
    /\ Len(dest_got) = MaxBytes
    /\ Len(peer_back) = MaxBytes

\* C19: when the worker handles a subscription to port P of a registered
\* client with a live receiver that does not hold P and goes on running:
\* if P is held by a full-port subscription the client receives
\* SubscribeResult(Err(PortAlreadyStolen(P))) and the subscriptions are
\* unchanged; if P is not, and the subscription is a filtered one, the client
\* receives SubscribeResult(Ok(P)) and is a subscriber of P afterwards.
C19_FilteredShareFullExcludes ==
    [][(Handles("PortSubscribe") /\ worker' = "running") =>
        LET c == Head(queue).client
            p == Head(queue).arg
        IN  (c \in clients /\ ReceiverAlive(c)
                /\ c \notin Range(port_subscriptions[p])) =>
                IF p \in full_ports
                THEN /\ sink'[c] = Append(sink[c], SubscribeResultErr(p))
                     /\ UNCHANGED port_subscriptions
                ELSE Head(queue).data = HttpFilterSteal =>
                     /\ sink'[c] = Append(sink[c], SubscribeResultOk(p))
                     /\ c \in Range(port_subscriptions'[p])]_vars

\* The step is a write to connection id failing while ResponseData is handled.
WriteFails(id) ==
    /\ worker = "running"
    /\ queue # <<>>
    /\ Head(queue).kind = "ResponseData"
    /\ Head(queue).arg = id
    /\ id \in write_streams
    /\ last'.kind = "ResponseData"
    /\ last'.result = "failed"

\* The step is the read stream of connection id ending after a read error.
ReadFailed(id) ==
    /\ worker = "running"
    /\ worker' = "running"
    /\ id \in errored
    /\ id \in read_streams
    /\ last'.kind = "Close"
    /\ last'.conn = id
    /\ id \notin read_streams'

\* C20: when a write to a stolen connection fails, or its read stream ends
\* after a read error, and the connection's client is registered with a live
\* receiver, then after the step the worker holds neither half of the
\* connection nor its client association, the client has received
\* Close{connection_id} and the worker is running.
C20_IoFailureClosesConnection ==
    [][\A id \in ConnIds :
        LET c == client_connections[id] IN
        ((WriteFails(id) \/ ReadFailed(id))
            /\ c # NoClient /\ c \in clients /\ ReceiverAlive(c)) =>
            /\ id \notin write_streams'
            /\ id \notin read_streams'
            /\ client_connections'[id] = NoClient
            /\ sink'[c] = Append(sink[c], Close(id))
            /\ worker' = "running"]_vars

\* C21: the main loop returns only when it is cancelled, when a debug
\* assertion fails, when the original destination of an accepted connection
\* cannot be read, or when the install of a rule fails in PortSubscribe: a
\* failed send to a client's sink, a failed write to a stolen connection, an
\* accept for a port with no subscriber and a failed rule removal leave the
\* worker running.
C21_LoopSurvivesFailures ==
    [][(worker = "running" /\ worker' = "stopped"
            /\ last'.result = "failed") =>
        \/ /\ last'.kind = "PortSubscribe"
           /\ SendOutcome(last'.client) # "failed"
        \/ /\ last'.kind = "Accept"
           /\ last'.port = 0]_vars

\* The number of HttpResponse messages on the wire that answer the request
\* rid of connection id.
Responses(id, rid) ==
    Cardinality({i \in 1..Len(wire) : wire[i] = HttpResponse(id, rid)})

\* C22: every matched HttpRequest the layer has received leads to a state in
\* which the wire holds exactly one HttpResponse with the request_id and the
\* connection_id of that request.
C22_RequestLeadsToOneResponse ==
    \A id \in LayerConns, rid \in 1..MaxRequests :
        (HttpRequest(id, rid) \in requests) ~> (Responses(id, rid) = 1)

\* C23: when the write of a Data message's bytes to the local socket of a
\* connection fails, the layer holds neither half of the connection after
\* the handler and has put ConnectionUnsubscribe of it on the wire.
C23_WriteFailureClosesAndUnsubscribes ==
    [][(layer = "running"
            /\ layer_issued' # layer_issued
            /\ layer_last'.kind = "Data"
            /\ layer_last'.result = "write failed") =>
        LET id == layer_last'.conn IN
        /\ id \notin layer_write_streams'
        /\ id \notin layer_read_streams'
        /\ wire' = Append(wire, ConnectionUnsubscribe(id))]_vars

\* The messages on the wire before the i-th that are of the same connection.
WireBefore(i) ==
    {j \in 1..(i - 1) :
        wire[j].type \in {"Data", "ConnectionUnsubscribe"}
            /\ wire[j].a = wire[i].a}

\* C24: on the wire the messages of each local connection are the Data of
\* the chunks read from the local application, in the order read and all of
\* them, then at most one ConnectionUnsubscribe, after which nothing of the
\* connection follows; when the read stream of a connection ends the
\* ConnectionUnsubscribe of that connection is the message emitted.
C24_DataInOrderThenOneUnsubscribe ==
    /\ \A i \in 1..Len(wire) :
            wire[i].type \in {"Data", "ConnectionUnsubscribe"} =>
                /\ \A j \in WireBefore(i) : wire[j].type = "Data"
                /\ wire[i].type = "Data" =>
                        wire[i].b = Cardinality(WireBefore(i)) + 1
                /\ wire[i].type = "ConnectionUnsubscribe" =>
                        app_reads[wire[i].a] = Cardinality(WireBefore(i))
    /\ \A id \in LayerConns :
            app_reads[id] = Cardinality({i \in 1..Len(wire) :
                                wire[i] = Data(id, wire[i].b)})
    /\ layer_last.kind = "ReadEnd" =>
            /\ wire # <<>>
            /\ LastOf(wire) = ConnectionUnsubscribe(layer_last.conn)
            /\ layer_last.conn \notin layer_read_streams

\* Two chunks of a connection were read and emitted, then its stream ended.
C24_Witness ==
    /\ layer_last.kind = "ReadEnd"
    /\ Len(wire) >= 3
    /\ wire[Len(wire) - 1] = Data(layer_last.conn, 2)
    /\ LastOf(wire) = ConnectionUnsubscribe(layer_last.conn)

\* The step is the layer handling the agent's message of kind k.
LayerHandles(k) ==
    /\ layer = "running"
    /\ layer_issued' # layer_issued
    /\ layer_last'.kind = k

\* C25: what the local application of a connection has received is always a
\* prefix of the payloads the agent sent for that connection since it
\* announced it; a Data handled while the write half is held, with the write
\* going well, adds its payload at the end for that connection and leaves
\* the others alone; NewConnection with a successful dial registers both
\* halves; Close removes both halves of its connection and no other.
C25_DataToItsSocketInOrder ==
    [][/\ \A id \in LayerConns : IsPrefix(app_got'[id], agent_sent'[id])
       /\ (LayerHandles("Data") /\ layer_last'.result = "ok") =>
            LET id == layer_last'.conn IN
            /\ app_got'[id] = Append(app_got[id], LastOf(agent_sent'[id]))
            /\ \A other \in LayerConns \ {id} :
                    app_got'[other] = app_got[other]
       /\ (LayerHandles("Data") /\ layer_last'.conn \in layer_write_streams) =>
            layer_last'.result \in {"ok", "write failed"}
       /\ (LayerHandles("NewConnection") /\ layer_last'.result = "ok") =>
            /\ layer_last'.conn \in layer_write_streams'
            /\ layer_last'.conn \in layer_read_streams'
       /\ LayerHandles("Close") =>
            /\ layer_write_streams' = layer_write_streams \ {layer_last'.conn}
            /\ layer_read_streams' = layer_read_streams \ {layer_last'.conn}
      ]_vars

\* Two Data of one connection were written to its socket, then the agent
\* closed the connection.
C25_Witness ==
    /\ layer_last.kind = "Close"
    /\ Len(app_got[layer_last.conn]) = 2
    /\ app_got[layer_last.conn] = agent_sent[layer_last.conn]

\* The step is the worker handling PortSubscribe(p) of client c with the
\* install of the rule failing: the port is free, the answer could be sent,
\* and the handler returns an error.
InstallFails(c, p) ==
    /\ worker = "running"
    /\ queue # <<>>
    /\ Head(queue) = Command(c, "PortSubscribe", p, Head(queue).data)
    /\ ~PortAlreadyStolen(c, p)
    /\ SendOutcome(c) # "failed"
    /\ last' = Event("PortSubscribe", c, p, -1, "failed")

\* C26: when the install of the redirect rule of port P fails while
\* PortSubscribe is handled, the subscriptions after the command are those
\* before it.
C26_FailedInstallRecordsNothing ==
    [][\A c \in Clients, p \in Ports :
        InstallFails(c, p) => port_subscriptions' = port_subscriptions]_vars

\* The step is the worker handling a command of kind k with the removal of a
\* redirect rule failing.
RemoveFails(k) ==
    /\ worker = "running"
    /\ queue # <<>>
    /\ Head(queue).kind = k
    /\ last'.kind = k
    /\ last'.result = "failed"

\* C27: when the removal of a redirect rule fails while PortUnsubscribe or
\* ClientClose is handled, the worker is running after the command, the
\* client is no subscriber of the port (PortUnsubscribe), or is no client
\* any more and subscribed to nothing (ClientClose).
C27_FailedRemoveIsNotFatal ==
    [][/\ RemoveFails("PortUnsubscribe") =>
            /\ worker' = "running"
            /\ last'.client \notin Range(port_subscriptions'[last'.port])
       /\ RemoveFails("ClientClose") =>
            /\ worker' = "running"
            /\ last'.client \notin clients'
            /\ get_client_topics(port_subscriptions', last'.client) = {}
      ]_vars

\* C28: the worker holds the iptables guard exactly when some port has a
\* subscriber.
C28_GuardIffSubscribed ==
    (iptables = "Some") <=> ~is_empty(port_subscriptions)

\* ConnectionUnsubscribe of the connection id has been handled: only that
\* handler takes a write half out of the map of a running worker.
Unsubscribed(id) ==
    /\ worker = "running"
    /\ id < index_allocator
    /\ id \notin write_streams

\* C29: once ConnectionUnsubscribe(c) is handled the worker polls no read
\* stream of c, no step puts a Data or a Close of c on a sink, and a
\* ResponseData for c is handled without error, writes nothing to the peer
\* and changes neither the subscriptions, the clients, the rules nor the
\* connections.
C29_UnsubscribedConnectionIsSilent ==
    [][/\ \A id \in write_streams \cup read_streams : ~Unsubscribed(id)
       /\ \A c \in Clients :
            (sink'[c] # sink[c]
                /\ LastOf(sink'[c]).type \in {"Data", "Close"}) =>
                    ~Unsubscribed(LastOf(sink'[c]).a)
       /\ (Handles("ResponseData") /\ Unsubscribed(Head(queue).arg)) =>
            /\ worker' = "running"
            /\ last'.result = "ok"
            /\ UNCHANGED <<stealerVars, connVars, sink>>]_vars

\* A ResponseData for a connection was handled after the connection's
\* ConnectionUnsubscribe.
C29_Witness ==
    /\ Unsubscribed(last.conn)
    /\ last.kind = "ResponseData"
    /\ last.result = "ok"
    /\ client_connections[last.conn] # NoClient

\* C30: the map of write halves, the map of read streams and the map from
\* connections to clients hold the same connection ids.
C30_ConnectionMapsAgree ==
    /\ write_streams = read_streams
    /\ read_streams = {id \in ConnIds : client_connections[id] # NoClient}

\* C31: every call of the handler of a filtered connection, matched or
\* unmatched, adds one to request_id and gives the request the new value;
\* the n-th request of the connection has the request_id n, a value no
\* earlier request of the connection has, and an unmatched request is
\* handed to its future under that value.
C31_RequestIdCountsRequests ==
    [][calls' # calls =>
        /\ Len(calls') = Len(calls) + 1
        /\ request_id' = request_id + 1
        /\ request_id' = Len(calls')
        /\ request_id' \notin in_flight \cup proxied
        /\ LastOf(calls') = NoClient =>
                in_flight' = in_flight \cup {request_id'}]_vars

\* An unmatched request got the request_id 1 and a matched one after it 2.
C31_Witness ==
    /\ Len(calls) = 2
    /\ calls[1] = NoClient
    /\ calls[2] # NoClient
    /\ request_id = 2

\* C32: the probe answers V2 for every peeked buffer that begins with the
\* whole preface, whatever follows it, and for every buffer shorter than the
\* preface that is the preface's prefix of its length.
C32_PrefaceOrItsPrefixIsV2 ==
    (http_version # "None"
        /\ \/ /\ Len(tcp_in) >= Len(H2_PREFACE)
              /\ SubSeq(tcp_in, 1, Len(H2_PREFACE)) = H2_PREFACE
           \/ /\ Len(tcp_in) < Len(H2_PREFACE)
              /\ tcp_in = SubSeq(H2_PREFACE, 1, Len(tcp_in)))
        => http_version = "V2"

\* Err(Empty) starts neither the HTTP server task nor the passthrough task,
\* copies nothing and leaves no record of the connection in the worker.
EmptyPeekStartsNothing ==
    http_version = "Empty" =>
        /\ filter_task = "none"
        /\ dest_got = <<>>
        /\ peer_back = <<>>
        /\ write_streams = {}
        /\ read_streams = {}
        /\ \A id \in ConnIds : client_connections[id] = NoClient

C35_FailureEndsServerLoop ==
    (\E i \in 1..Len(unmatched_tx) : ~unmatched_tx[i].ok)
        => hyper_task # "serving"

\* C36: when data or the end of the stream arrives on a stolen connection
\* whose owning client is not registered any more, the worker neither
\* panics nor stops: it closes and removes the connection and goes on.
C36_OrphanConnectionIsClosed ==
    (/\ last.kind \in {"Data", "Close"}
     /\ \/ last.result = "panicked"
        \/ last.client \notin clients)
        => /\ worker = "running"
           /\ last.conn \notin read_streams
           /\ last.conn \notin write_streams

\* C37: creating the filter manager of a port for its first filtered
\* subscription succeeds, and its filter map then holds the regex of the
\* subscribing client and nothing else.
C37_FirstFilterManagerCreated ==
    last.kind = "FilterManagerNew" =>
        /\ last.result = "ok"
        /\ worker = "running"
        /\ client_filters =
                [c \in Clients |-> IF c = last.client THEN last.filter
                                                      ELSE NoFilter]

\* C38: only the manager of the port changes the filter map, never a
\* handler task; and while the removal of a client's filter is the last
\* thing the manager did, no request that a handler starts to match is
\* matched to that client.
C38_RemovedClientIsNeverMatched ==
    [][/\ client_filters' # client_filters =>
            /\ last'.kind \in {"FilterManagerNew", "NewClient", "RemoveClient"}
            /\ calls' = calls
            /\ request_id' = request_id
            /\ in_flight' = in_flight
       /\ (calls' # calls /\ last.kind = "RemoveClient") =>
            LastOf(calls') # last.client]_vars

\* The one thing the manager did was to remove a client's filter, and a
\* request with the header that filter matched was then not matched.
C38_Witness ==
    /\ last.kind = "RemoveClient"
    /\ last.filter # NoFilter
    /\ issued = 1
    /\ calls # <<>>
    /\ LastOf(calls) = NoClient
    /\ last.filter \in Range(last_headers)

\* C39: two iptables guards never exist at once: the worker creates the
\* guard, on the first subscription of any port, only when no earlier guard
\* is alive, and the ports subscribed after that step have their rules.
C39_OneGuardAtATime ==
    [][(is_empty(port_subscriptions) /\ ~is_empty(port_subscriptions')) =>
            /\ iptables = "None"
            /\ \A p \in Ports : port_subscriptions'[p] # <<>> => p \in rules']_vars

\* C40: in every reachable state every client that holds a port subscription
\* is registered: the subscription index names no client that is absent
\* from the clients map.
C40_SubscribersAreRegistered ==
    \A p \in Ports : Range(port_subscriptions[p]) \subseteq clients

\* Two registered clients hold subscriptions, on different ports.
C40_Witness ==
    /\ Cardinality(clients) = 2
    /\ \A p \in Ports : port_subscriptions[p] # <<>>
    /\ \E p, q \in Ports : Range(port_subscriptions[p]) # Range(port_subscriptions[q])

====
